---- MODULE Spec2Model ----
(***************************************************************************)
(* Model of the microblog renderer (src/app.py): the post store reader,    *)
(* the filter/sort pipeline, the paginator and the listing routes.         *)
(*                                                                         *)
(* Text is modelled as sequences: a date string is a sequence of digits    *)
(* (fixed width, most significant first), a category label and a URL path  *)
(* segment are sequences of characters.  A Python dict is a function whose *)
(* DOMAIN is its key set.  An optional value (None or a value) is a        *)
(* sequence of length 0 or 1.                                              *)
(***************************************************************************)
EXTENDS Integers, Sequences, FiniteSets, TLC

VARIABLES
    files,       \* posts/*.rst in glob order: the metadata dict of each file
    now,         \* datetime.now(), in seconds
    request,     \* the last request served
    response,    \* what the handler handed to the template layer
    items,       \* argument of reverse_chunks
    pagination,  \* argument of reverse_chunks
    chunks,      \* optional: the value reverse_chunks returned
    posts,       \* argument of processed_posts
    criteria,    \* keyword arguments of processed_posts
    results      \* successive values of processed_posts, each fed to the next

vars == <<files, now, request, response, items, pagination, chunks,
          posts, criteria, results>>

\* ------------------------------------------------------------------ bounds
MaxLen == 5
MaxPagination == 3
MaxItem == 1
MaxPosts == 2
MaxFiles == 2
MaxDir == 6
MaxPage == 2

\* ------------------------------------------------------ program constants
\* pagination = 5 in show_index
PAGINATION == 5

\* posts[:10] in atom_feed
FEED_LIMIT == 10

\* ------------------------------------------------------- generic helpers
None == <<>>

Some(v) == <<v>>

Reverse(s) == [i \in 1..Len(s) |-> s[Len(s) + 1 - i]]

\* Python slice s[start:end] for 0 <= start, 0 <= end
Slice(s, start, end) ==
    LET hi == IF end > Len(s) THEN Len(s) ELSE end
    IN  IF start >= hi THEN <<>> ELSE SubSeq(s, start + 1, hi)

RECURSIVE SeqsUpTo(_, _)
SeqsUpTo(S, n) ==
    IF n = 0 THEN {<<>>}
    ELSE LET shorter == SeqsUpTo(S, n - 1)
         IN  shorter \cup {Append(s, x) : s \in shorter, x \in S}

RECURSIVE Flatten(_)
Flatten(ss) == IF ss = <<>> THEN <<>> ELSE Head(ss) \o Flatten(Tail(ss))

Max(a, b) == IF a >= b THEN a ELSE b

\* math.ceil(a / b) for a >= 0, b > 0
ceil(a, b) == (a + b - 1) \div b

\* ------------------------------------------------------------- paginator
RECURSIVE chunk_loop(_, _, _, _, _)
chunk_loop(its, pagin, start, end, left) ==
    IF left = 0 THEN <<>>
    ELSE <<Reverse(Slice(its, start, end))>>
         \o chunk_loop(its, pagin, Max(0, start - pagin), end - pagin, left - 1)

\* reverse_chunks with the loop one page short: range(1, pages)
reverse_chunks_short(its, pagin) ==
    LET pages == ceil(Len(its), pagin)
    IN  IF pages <= 1
        THEN <<Reverse(its)>>
        ELSE chunk_loop(its, pagin, Len(its) - pagin, Len(its), pages - 1)

\* The single page of the pages <= 1 branch is a reversed() iterator; it is
\* modelled by the sequence of items it yields.
reverse_chunks(its, pagin) ==
    LET pages == ceil(Len(its), pagin)
    IN  IF pages <= 1
        THEN <<Reverse(its)>>
        ELSE chunk_loop(its, pagin, Len(its) - pagin, Len(its), pages)

\* ------------------------------------------------------- dates and clock
\* Date strings in EXACT_FORMAT, reduced to a fixed-width field of two
\* decimal digits.
DateStrings == {<<0, 2>>, <<1, 0>>}

\* The instants (in seconds) at which datetime.now() is read
Instants == {2, 3, 11}

\* datetime.strptime(s, EXACT_FORMAT), as seconds
RECURSIVE strptime(_)
strptime(s) ==
    IF s = <<>> THEN 0 ELSE 10 * strptime(SubSeq(s, 1, Len(s) - 1)) + s[Len(s)]

\* Python's < on strings: lexicographic, a proper prefix is smaller
RECURSIVE StrLess(_, _)
StrLess(a, b) ==
    IF b = <<>> THEN FALSE
    ELSE IF a = <<>> THEN TRUE
    ELSE IF a[1] # b[1] THEN a[1] < b[1]
    ELSE StrLess(Tail(a), Tail(b))

\* ---------------------------------------------------- filter/sort pipeline
Range(s) == {s[i] : i \in 1..Len(s)}

\* timedelta computed with >= 0 in place of > 0
fits_criterium_inclusive(post, key, value, t) ==
    IF key = "published" /\ "published" \in DOMAIN post /\ "date" \in DOMAIN post
    THEN LET timedelta == (t - strptime(post.date)) >= 0
             condition == post.published = "yes" /\ timedelta
         IN  IF value THEN condition ELSE ~condition
    ELSE IF key = "category"
    THEN post.category \in Range(value)
    ELSE TRUE

\* t is the value datetime.now() returns during the call
fits_criterium(post, key, value, t) ==
    IF key = "published" /\ "published" \in DOMAIN post /\ "date" \in DOMAIN post
    THEN LET timedelta == (t - strptime(post.date)) > 0
             condition == post.published = "yes" /\ timedelta
         IN  IF value THEN condition ELSE ~condition
    ELSE IF key = "category"
    THEN post.category \in Range(value)
    ELSE TRUE

fits_criteria(post, crit, t) ==
    \A key \in DOMAIN crit : fits_criterium(post, key, crit[key], t)

RECURSIVE SelectPosts(_, _, _)
SelectPosts(ps, crit, t) ==
    IF ps = <<>> THEN <<>>
    ELSE (IF fits_criteria(Head(ps), crit, t) THEN <<Head(ps)>> ELSE <<>>)
         \o SelectPosts(Tail(ps), crit, t)

\* Insert x into the date-sorted s after every element that is not greater
SortedInsert(s, x) ==
    LET k == Cardinality({i \in 1..Len(s) : ~StrLess(x.date, s[i].date)})
    IN  SubSeq(s, 1, k) \o <<x>> \o SubSeq(s, k + 1, Len(s))

\* A sort that puts x before the elements of equal date (not stable)
RECURSIVE sorted_unstable(_)
sorted_unstable(ps) ==
    IF ps = <<>> THEN <<>>
    ELSE LET s == sorted_unstable(SubSeq(ps, 1, Len(ps) - 1))
             x == ps[Len(ps)]
             k == Cardinality({i \in 1..Len(s) : StrLess(s[i].date, x.date)})
         IN  SubSeq(s, 1, k) \o <<x>> \o SubSeq(s, k + 1, Len(s))

\* sorted(ps, key=lambda post: post['date']): stable, ascending by date string
RECURSIVE sorted(_)
sorted(ps) ==
    IF ps = <<>> THEN <<>>
    ELSE SortedInsert(sorted(SubSeq(ps, 1, Len(ps) - 1)), ps[Len(ps)])

\* Reversal decided by the value of the reverse key, not by its presence
processed_posts_by_value(ps, crit, t) ==
    LET sorted_posts == sorted(SelectPosts(ps, crit, t))
    IN  IF "reverse" \in DOMAIN crit /\ crit["reverse"]
        THEN Reverse(sorted_posts)
        ELSE sorted_posts

processed_posts(ps, crit, t) ==
    LET filtered_posts == SelectPosts(ps, crit, t)
        sorted_posts == sorted(filtered_posts)
    IN  IF "reverse" \in DOMAIN crit
        THEN Reverse(sorted_posts)
        ELSE sorted_posts

\* ------------------------------------------------------ post store reader
Fields == {"title", "date", "category", "published"}

Categories == {<<"a">>, <<"b">>}

\* The metadata dict parse_post extracts from a file's docinfo block
MetadataOf(D, d, c, p) ==
    [k \in D |-> CASE k = "title" -> "title"
                   [] k = "date" -> d
                   [] k = "category" -> c
                   [] k = "published" -> p]

AllMetadata ==
    {MetadataOf(D, d, c, p) : D \in SUBSET Fields, d \in DateStrings,
                              c \in Categories, p \in {"yes", "no"}}

\* ensure_metadata without the title test
ensure_metadata_no_title(metadata) ==
    "date" \in DOMAIN metadata /\ "category" \in DOMAIN metadata

ensure_metadata(metadata) ==
    IF "title" \in DOMAIN metadata /\ "date" \in DOMAIN metadata
       /\ "category" \in DOMAIN metadata
    THEN TRUE
    ELSE FALSE

\* post = metadata; post['content'] = content; post['slug'] = slug
MakePost(metadata, slug) ==
    [k \in DOMAIN metadata \cup {"content", "slug"} |->
        IF k = "content" THEN "html"
        ELSE IF k = "slug" THEN slug
        ELSE metadata[k]]

\* fs[i] is the metadata of the i-th file of the glob; its stem is i
RECURSIVE parse_posts_from(_, _)
parse_posts_from(fs, i) ==
    IF i > Len(fs) THEN <<>>
    ELSE (IF ensure_metadata(fs[i]) THEN <<MakePost(fs[i], i)>> ELSE <<>>)
         \o parse_posts_from(fs, i + 1)

parse_posts(fs) == parse_posts_from(fs, 1)

\* ------------------------------------------ specification: filter / sort
ValidMetadata == {m \in AllMetadata : ensure_metadata(m)}

NoCriteria == [k \in {} |-> TRUE]

CriteriaOf(p, c, r) ==
    [k \in (IF p = None THEN {} ELSE {"published"})
           \cup (IF c = None THEN {} ELSE {"category"})
           \cup (IF r = None THEN {} ELSE {"reverse"}) |->
        CASE k = "published" -> p[1]
          [] k = "category" -> c[1]
          [] k = "reverse" -> r[1]]

CriteriaSets ==
    {CriteriaOf(p, c, r) : p \in {None, Some(TRUE), Some(FALSE)},
                           c \in {None, Some(<< <<"a">> >>)},
                           r \in {None, Some(TRUE), Some(FALSE)}}

InitPosts ==
    /\ posts \in {parse_posts(fs) : fs \in SeqsUpTo(ValidMetadata, MaxPosts)}
    /\ now \in Instants
    /\ criteria = NoCriteria
    /\ results = <<>>
    /\ files = <<>>
    /\ request = None
    /\ response = None
    /\ items = <<>>
    /\ pagination = 1
    /\ chunks = None

\* processed_posts(posts, **c)
ProcessPosts(c) ==
    /\ results = <<>>
    /\ criteria' = c
    /\ results' = <<processed_posts(posts, c, now)>>
    /\ UNCHANGED <<files, now, request, response, items, pagination, chunks,
                   posts>>

\* processed_posts applied to its own result with the same criteria
ProcessAgain ==
    /\ Len(results) = 1
    /\ results' = Append(results, processed_posts(results[1], criteria, now))
    /\ UNCHANGED <<files, now, request, response, items, pagination, chunks,
                   posts, criteria>>

\* Time passes between evaluations; the next evaluation starts afresh
TickPosts ==
    /\ \E t \in Instants : t > now /\ now' = t
    /\ results' = <<>>
    /\ UNCHANGED <<files, request, response, items, pagination, chunks,
                   posts, criteria>>

NextPosts ==
    \/ \E c \in CriteriaSets : ProcessPosts(c)
    \/ ProcessAgain
    \/ TickPosts

SpecPosts == InitPosts /\ [][NextPosts]_vars

PublishedOnly == CriteriaOf(Some(TRUE), None, None)

UnpublishedOnly == CriteriaOf(Some(FALSE), None, None)

\* C1: a post p of the list appears in processed_posts(posts, published=True)
\* iff p.published == "yes" and p.date is strictly before now; a post with
\* no published field never appears in it.
C1_PublishedIffYesAndPast ==
    (results # <<>> /\ criteria = PublishedOnly) =>
        \A i \in 1..Len(posts) :
            posts[i] \in Range(results[1])
                <=> /\ "published" \in DOMAIN posts[i]
                    /\ posts[i].published = "yes"
                    /\ strptime(posts[i].date) < now

\* C7 as stated: processed_posts(processed_posts(posts, c), c) is the same
\* sequence as processed_posts(posts, c) for every list and every criteria
\* set c, with or without reverse, with now held fixed.
C7_Idempotent ==
    Len(results) = 2 => results[2] = results[1]

DistinctDates(ps) ==
    \A i, j \in 1..Len(ps) : i # j => ps[i].date # ps[j].date

\* C7 amended: processed_posts is idempotent for every criteria set without
\* a reverse key, and with a reverse key whenever the posts that fit the
\* criteria have pairwise distinct dates.
C7_IdempotentUnlessReversedTies ==
    (Len(results) = 2 /\ ("reverse" \notin DOMAIN criteria \/ DistinctDates(results[1])))
        => results[2] = results[1]

C7_Witness ==
    /\ Len(results) = 2
    /\ "reverse" \notin DOMAIN criteria
    /\ Len(results[1]) = 2
    /\ ~DistinctDates(results[1])
    /\ results[2] = results[1]

\* C9: every adjacent pair (a, b) of a result of processed_posts satisfies
\* a.date <= b.date when the criteria have no reverse key and
\* a.date >= b.date when the reverse key is present, whatever its value.
C9_SortedByDate ==
    results # <<>> =>
        \A i \in 1..(Len(results[1]) - 1) :
            LET a == strptime(results[1][i].date)
                b == strptime(results[1][i + 1].date)
            IN  IF "reverse" \in DOMAIN criteria THEN a >= b ELSE a <= b

C9_Witness ==
    /\ Len(results) = 1
    /\ "reverse" \in DOMAIN criteria
    /\ ~criteria["reverse"]
    /\ Len(results[1]) = 2
    /\ results[1] = Reverse(posts)
    /\ strptime(results[1][1].date) > strptime(results[1][2].date)

YesPosts == {i \in 1..Len(posts) :
                "published" \in DOMAIN posts[i] /\ posts[i].published = "yes"}

ListedAt(i, crit, t) == posts[i] \in Range(processed_posts(posts, crit, t))

C10_Evaluation ==
    results # <<>> =>
        \A i \in YesPosts :
            /\ criteria = PublishedOnly =>
                (posts[i] \in Range(results[1]) <=> now > strptime(posts[i].date))
            /\ criteria = UnpublishedOnly =>
                (posts[i] \in Range(results[1]) <=> now <= strptime(posts[i].date))

C10_NoRevert ==
    \A i \in YesPosts :
        (ListedAt(i, PublishedOnly, now) /\ ~ListedAt(i, UnpublishedOnly, now))
            => (ListedAt(i, PublishedOnly, now') /\ ~ListedAt(i, UnpublishedOnly, now'))

\* C10: with the posts unchanged and now advancing, a post whose published
\* field is "yes" is absent from processed_posts(posts, published=True) and
\* present in processed_posts(posts, published=False) in every evaluation
\* made while now <= date, present in the former and absent from the latter
\* in every evaluation made once now > date, and once published it never
\* reverts to unpublished.
C10_PublishedOncePast ==
    [](C10_Evaluation) /\ [][C10_NoRevert]_vars

C10_Witness ==
    /\ results # <<>>
    /\ criteria = PublishedOnly
    /\ now = 11
    /\ \E i \in YesPosts : posts[i].date = <<1, 0>> /\ posts[i] \in Range(results[1])

\* ----------------------------------------------------------------- routes
\* str.split(','): the pieces between the commas, empty pieces included
RECURSIVE split(_)
split(s) ==
    LET commas == {i \in 1..Len(s) : s[i] = ","}
    IN  IF commas = {} THEN <<s>>
        ELSE LET i == CHOOSE c \in commas : \A d \in commas : c <= d
             IN  <<SubSeq(s, 1, i - 1)>> \o split(SubSeq(s, i + 1, Len(s)))

NoResponse == [template |-> "", error |-> "", posts |-> <<>>, page |-> 0,
               old |-> FALSE, new |-> FALSE]

\* flask.render_template('error.tmpl', error=msg)
ErrorPage(msg) == [NoResponse EXCEPT !.template = "error.tmpl", !.error = msg]

\* A template (or the feed) rendered with a list of posts
Listing(tmpl, ps) == [NoResponse EXCEPT !.template = tmpl, !.posts = ps]

category_posts(categories, fs, t) ==
    IF categories # <<>>
    THEN processed_posts(parse_posts(fs),
                         CriteriaOf(Some(TRUE), Some(categories), Some(TRUE)), t)
    ELSE processed_posts(parse_posts(fs),
                         CriteriaOf(Some(TRUE), None, Some(TRUE)), t)

\* page and posts_arg are optional (None when the route leaves them out)
show_index(page, posts_arg, fs, t) ==
    LET posts1 == IF posts_arg = None \/ posts_arg[1] = <<>>
                  THEN processed_posts(parse_posts(fs), PublishedOnly, t)
                  ELSE posts_arg[1]
    IN  IF posts1 # <<>>
        THEN LET page1 == IF page = None \/ page[1] = 0 THEN 1 ELSE page[1]
                 pages == reverse_chunks(posts1, PAGINATION)
             IN  IF page1 \in 1..Len(pages)
                 THEN [template |-> "posts.tmpl", error |-> "",
                       posts |-> pages[page1], page |-> page1,
                       old |-> (Len(pages) > 1 /\ page1 # Len(pages)),
                       new |-> (Len(pages) > 1 /\ page1 # 1)]
                 ELSE ErrorPage("Invalid index")
        ELSE ErrorPage("No posts yet")

show_category_posts(category, page, fs, t) ==
    LET categories == split(category)
        ps == category_posts(categories, fs, t)
    IN  show_index(page, Some(ps), fs, t)

show_unpublished(fs, t) ==
    LET ps == processed_posts(parse_posts(fs),
                              CriteriaOf(Some(FALSE), None, Some(TRUE)), t)
    IN  IF ps # <<>> THEN Listing("unpublished.tmpl", ps)
        ELSE ErrorPage("No unpublished posts")

show_archive(fs, t) ==
    LET ps == processed_posts(parse_posts(fs),
                              CriteriaOf(Some(TRUE), None, Some(TRUE)), t)
    IN  IF ps # <<>> THEN Listing("archive.tmpl", ps)
        ELSE ErrorPage("No posts yet")

\* One feed entry per post of posts[:10]
atom_feed(ps) == Listing("atom", Slice(ps, 0, FEED_LIMIT))

\* category is optional
show_atom_feed(category, fs, t) ==
    LET categories == IF category # None /\ category[1] # <<>>
                      THEN split(category[1]) ELSE <<>>
        ps == category_posts(categories, fs, t)
    IN  IF ps # <<>> THEN atom_feed(ps) ELSE ErrorPage("No posts yet")

\* -------------------------------------------------- specification: server
\* Page numbers tried.  The <int:page> converter of the routes admits only
\* the non-negative ones; -1 is show_index called directly.
Pages == {None} \cup {Some(k) : k \in (-1)..MaxPage}

CategorySegments == {<<"b">>, <<"a", ",", "b">>}

Request(route, category, page) ==
    [route |-> route, category |-> category, page |-> page]

\* GET /, /posts, /posts/<int:page>
ShowIndex(page) ==
    /\ request' = Some(Request("index", None, page))
    /\ response' = Some(show_index(page, None, files, now))
    /\ UNCHANGED <<files, now, items, pagination, chunks, posts, criteria,
                   results>>

\* GET /categories/<category>, /categories/<category>/<int:page>
ShowCategoryPosts(category, page) ==
    /\ request' = Some(Request("category", Some(category), page))
    /\ response' = Some(show_category_posts(category, page, files, now))
    /\ UNCHANGED <<files, now, items, pagination, chunks, posts, criteria,
                   results>>

\* GET /unpublished
ShowUnpublished ==
    /\ request' = Some(Request("unpublished", None, None))
    /\ response' = Some(show_unpublished(files, now))
    /\ UNCHANGED <<files, now, items, pagination, chunks, posts, criteria,
                   results>>

\* GET /archive
ShowArchive ==
    /\ request' = Some(Request("archive", None, None))
    /\ response' = Some(show_archive(files, now))
    /\ UNCHANGED <<files, now, items, pagination, chunks, posts, criteria,
                   results>>

\* GET /feed, /feed/<category>
ShowAtomFeed(category) ==
    /\ request' = Some(Request("feed", category, None))
    /\ response' = Some(show_atom_feed(category, files, now))
    /\ UNCHANGED <<files, now, items, pagination, chunks, posts, criteria,
                   results>>

\* Time passes between two requests
Tick ==
    /\ \E t \in Instants : t > now /\ now' = t
    /\ UNCHANGED <<files, request, response, items, pagination, chunks,
                   posts, criteria, results>>

Next ==
    \/ \E page \in Pages : ShowIndex(page)
    \/ \E category \in CategorySegments, page \in Pages :
           ShowCategoryPosts(category, page)
    \/ ShowUnpublished
    \/ ShowArchive
    \/ \E category \in {None} \cup {Some(c) : c \in CategorySegments} :
           ShowAtomFeed(category)
    \/ Tick

InitServer(directories) ==
    /\ files \in directories
    /\ now \in Instants
    /\ request = None
    /\ response = None
    /\ items = <<>>
    /\ pagination = 1
    /\ chunks = None
    /\ posts = <<>>
    /\ criteria = NoCriteria
    /\ results = <<>>

\* Small directories of files with every combination of metadata fields
FieldShapes == {MetadataOf(D, <<0, 2>>, <<"a">>, "yes") : D \in SUBSET Fields}

Init == InitServer(SeqsUpTo(FieldShapes, MaxFiles))

Spec == Init /\ [][Next]_vars

\* Larger directories of valid posts, enough of them for several pages
PagedShapes ==
    {MetadataOf(Fields, <<0, 2>>, <<"a">>, "yes"),
     MetadataOf(Fields, <<1, 0>>, <<"a">>, "yes")}

InitPaged == InitServer(SeqsUpTo(PagedShapes, MaxDir))

SpecPaged == InitPaged /\ [][Next]_vars

\* ------------------------------------------------------- claims: server
Req == request[1]

Resp == response[1]

Date(post) == strptime(post.date)

\* The files whose metadata lacks title, date or category
Incomplete == {i \in 1..Len(files) : ~({"title", "date", "category"} \subseteq DOMAIN files[i])}

\* C8: a post source whose metadata lacks title, date or category never
\* appears in the output of parse_posts, hence in no listing built from it
\* (index, category, unpublished, archive, feed).
C8_IncompleteNeverListed ==
    /\ \A post \in Range(parse_posts(files)) : post.slug \notin Incomplete
    /\ response # None => \A post \in Range(Resp.posts) : post.slug \notin Incomplete

C8_Witness ==
    /\ response # None
    /\ Len(files) = 2
    /\ DOMAIN files[1] = {"title", "date", "published"}
    /\ Resp.template = "posts.tmpl"
    /\ Len(Resp.posts) = 1
    /\ Resp.posts[1].slug = 2

\* The posts the index lists as published at the present instant
PublishedNow ==
    Range(processed_posts(parse_posts(files), PublishedOnly, now))

\* C3: when show_category_posts is requested for categories that no
\* published post belongs to, the result is the "No posts yet" error; it
\* never renders posts whose category is outside the requested set.
C3_EmptyCategoryIsError ==
    (request # None /\ Req.route = "category") =>
        LET wanted == Range(split(Req.category[1]))
        IN  /\ (\A post \in PublishedNow : post.category \notin wanted)
                => Resp = ErrorPage("No posts yet")
            /\ \A post \in Range(Resp.posts) : post.category \in wanted

\* The post list show_index paginates for the request served
PostsShown ==
    LET indexed == processed_posts(parse_posts(files), PublishedOnly, now)
        passed == category_posts(split(Req.category[1]), files, now)
    IN  IF Req.route = "index" THEN indexed
        ELSE IF passed = <<>> THEN indexed ELSE passed

\* C2: for a non-empty post set, page 0, a negative page or a page beyond
\* the number of pages yields the "Invalid index" error, and a page k in
\* 1..total_pages yields the k-th chunk of reverse_chunks(posts, 5).
C2_PageBounds ==
    (request # None /\ Req.route \in {"index", "category"} /\ Req.page # None
     /\ PostsShown # <<>>) =>
        LET k == Req.page[1]
            pages == reverse_chunks(PostsShown, PAGINATION)
        IN  IF k \in 1..Len(pages)
            THEN Resp.template = "posts.tmpl" /\ Resp.posts = pages[k]
            ELSE Resp = ErrorPage("Invalid index")

\* C4: in the index route and in the category route the pages are
\* reverse-chronological: page 1 holds the most recent matching posts, the
\* last page the oldest, and within a page posts are ordered by date
\* descending.
C4_ReverseChronological ==
    (request # None /\ Req.route \in {"index", "category"}
     /\ Resp.template = "posts.tmpl") =>
        LET shown == Resp.posts
            others == Range(PostsShown) \ Range(shown)
        IN  /\ \A i, j \in 1..Len(shown) : i < j => Date(shown[i]) >= Date(shown[j])
            /\ Resp.page = 1 =>
                \A x \in Range(shown), y \in others : Date(x) >= Date(y)
            /\ Len(PostsShown) <= Resp.page * PAGINATION =>
                \A x \in Range(shown), y \in others : Date(x) <= Date(y)

\* --------------------------------------------- specification: paginator
ItemValues == 0..MaxItem

InitChunks ==
    /\ items \in SeqsUpTo(ItemValues, MaxLen)
    /\ pagination \in 1..MaxPagination
    /\ chunks = None
    /\ files = <<>>
    /\ now = 0
    /\ request = None
    /\ response = None
    /\ posts = <<>>
    /\ criteria = <<>>
    /\ results = <<>>

ReverseChunks ==
    /\ chunks = None
    /\ chunks' = Some(reverse_chunks(items, pagination))
    /\ UNCHANGED <<files, now, request, response, items, pagination,
                   posts, criteria, results>>

NextChunks == ReverseChunks

SpecChunks == InitChunks /\ [][NextChunks]_vars

\* C5: reverse_chunks([], n) returns zero pages (not one empty page) for
\* every page size n > 0.
C5_EmptyGivesNoPages ==
    (chunks # None /\ items = <<>>) => chunks[1] = <<>>

\* C6: for non-empty items and n > 0, reverse_chunks(items, n) returns
\* ceil(len(items)/n) pages whose concatenation in page order is
\* reversed(items); every page but the last holds n items and the last holds
\* len(items) mod n items, or n if that remainder is 0.
C6_ChunksPartitionReversed ==
    (chunks # None /\ items # <<>>) =>
        LET ch == chunks[1]
            n == pagination
            rem == Len(items) % n
        IN  /\ Len(ch) * n >= Len(items)
            /\ (Len(ch) - 1) * n < Len(items)
            /\ Flatten(ch) = Reverse(items)
            /\ \A k \in 1..(Len(ch) - 1) : Len(ch[k]) = n
            /\ Len(ch[Len(ch)]) = (IF rem = 0 THEN n ELSE rem)

C6_Witness ==
    /\ chunks # None
    /\ Len(items) = 5
    /\ pagination = 2
    /\ Len(chunks[1]) = 3
    /\ Len(chunks[1][3]) = 1
    /\ items[1] # items[5]

====
